---- MODULE Spec2Model ----
(***************************************************************************)
(* Model of src/scripts/scraper/scrape_plants.py: the Wikidata name        *)
(* resolver, the plant-type classifier and the batch driver (main,         *)
(* extract_plant_info, update_plant_basics).                               *)
(*                                                                         *)
(* Every external HTTP call is an input: its response is drawn from a      *)
(* small set that covers a raised exception, a non-2xx status, a body that *)
(* is not JSON, a JSON body lacking the expected keys, and a well-formed   *)
(* body.  A Python function that may raise is an operator returning an     *)
(* outcome record [raised, value, calls]; calls lists the HTTP requests    *)
(* the function issued, in order.                                          *)
(***************************************************************************)
EXTENDS Integers, Sequences, FiniteSets, TLC

VARIABLES
    cpc,    \* "call" before the get_plant_type call, "returned" after it
    cin,    \* arguments and responses handed to one get_plant_type call
    cout,   \* the outcome of that call
    pc,                 \* where main stands
    run,                \* how many times main has been started
    now,                \* the clock datetime.now reads
    store,              \* the plant_basics collection: documents by _id
    existing_plants,    \* main: the ids found in the collection
    plants_to_scrape,   \* main: the catalog ids still to process, in order
    all_plants_data,    \* main: the batch dict, str(plant_id) -> record
    cur,                \* extract_plant_info: the locals of the entry in hand
    upd,                \* update_plant_basics: its loop and counters
    caught,             \* history: entries whose extraction raised (line 744)
    update_errors,      \* history: ids whose upsert raised (line 796)
    store_at_start      \* history: the collection when this run started

cvars == <<cpc, cin, cout>>
pvars == <<pc, run, now, store, existing_plants, plants_to_scrape, all_plants_data,
           cur, upd, caught, update_errors, store_at_start>>
vars == <<cvars, pvars>>

(***************************************************************************)
(* Bounds of the model.                                                    *)
(***************************************************************************)
MaxTaxa == 2      \* taxa in one iNaturalist ancestors response
MaxClaims == 2    \* P31 statements in one wbgetclaims response
MaxCandidates == 2  \* results in one wbsearchentities response
MaxPlants == 2    \* entries of PLANTS_TO_SCRAPE that the model processes
MaxRuns == 2      \* runs of main

(***************************************************************************)
(* Python values and outcomes.                                             *)
(***************************************************************************)
None == "None"
NoBody == "NoBody"

\* bool(x) is False for None and for the empty string.
Falsy(x) == x \in {None, ""}

Ret(v, calls) == [raised |-> FALSE, value |-> v, calls |-> calls]
Raise(calls) == [raised |-> TRUE, value |-> None, calls |-> calls]

\* One HTTP request: the endpoint, its argument, and whether the request
\* carries headers={'User-Agent': USER_AGENT}.
Call(endpoint, arg, ua) == [endpoint |-> endpoint, arg |-> arg, user_agent |-> ua]

\* Mutant of ExceptPass: the try block is missing and the exception leaves
\* the function.
ExceptPropagate(r) == r

\* try: ... except: pass  -- the body's exception is swallowed and control
\* falls through to the statement after the try.
ExceptPass(r) == IF r.raised THEN Ret(None, r.calls) ELSE r

\* Sequences over S of length at most n.
SeqUpTo(S, n) == UNION {[1..k -> S] : k \in 0..n}

\* "http://www.wikidata.org/entity/Q506".split("/") and [-1] of it.
EntityUri(q) == <<"http:", "", "www.wikidata.org", "entity", q>>
\* Mutant of LastSegment: index 0 instead of -1.
FirstSegment(parts) == parts[1]
LastSegment(parts) == parts[Len(parts)]

(***************************************************************************)
(* HTTP responses.  kind is                                                *)
(*   "exception"   requests.get raised (timeout, connection error);        *)
(*   "http_error"  a non-2xx status, whose body is a JSON error object     *)
(*                 that holds none of the expected keys;                   *)
(*   "malformed"   a 2xx status whose body is not JSON: response.json()    *)
(*                 raises;                                                 *)
(*   "ok"          a 2xx status with a JSON body.                          *)
(***************************************************************************)
Failed(kind) == [kind |-> kind, body |-> NoBody]
Ok(body) == [kind |-> "ok", body |-> body]
FailedResps == {Failed("exception"), Failed("http_error"), Failed("malformed")}

(***************************************************************************)
(* get_plant_type, strategy 1: the direct-membership SPARQL query.         *)
(***************************************************************************)
\* The static node-to-category table.
type_mapping ==
    [n \in {"Q11004", "Q506", "Q23501", "Q193647", "Q11369", "Q27744", "Q188771"} |->
        CASE n = "Q11004" -> "Herb"
          [] n = "Q506" -> "Flowering"
          [] n = "Q23501" -> "Fruit/Vegetable"
          [] n = "Q193647" -> "Tree"
          [] n = "Q11369" -> "Grass"
          [] n = "Q27744" -> "Succulent"
          [] n = "Q188771" -> "Ornamental"]

\* The query ends in LIMIT 1: a response holds at most one binding.
DirectLimit == 1

\* Nodes a binding may name: the seven of the VALUES clause, and one node
\* outside the table.
DirectNodes == DOMAIN type_mapping \cup {"Q756"}

DirectBindingSet ==
    {[has_type |-> FALSE, uri |-> <<>>]}
        \cup {[has_type |-> TRUE, uri |-> EntityUri(q)] : q \in DirectNodes}

DirectResps ==
    FailedResps
        \cup {Ok([has_bindings |-> FALSE, bindings |-> <<>>])}
        \cup {Ok([has_bindings |-> TRUE, bindings |-> b]) :
                b \in SeqUpTo(DirectBindingSet, DirectLimit)}

\* The body of the first try block of get_plant_type.  value is the mapped
\* category, or None when control leaves the block without returning.
DirectMembership(entity_id, resp) ==
    LET calls == <<Call("sparql", entity_id, FALSE)>> IN
    IF resp.kind = "exception" THEN Raise(calls)
    ELSE IF resp.kind = "http_error" THEN Ret(None, calls)
    ELSE IF resp.kind = "malformed" THEN Raise(calls)
    ELSE LET data == resp.body IN
         IF data.has_bindings /\ data.bindings # <<>>
         THEN LET binding == data.bindings[1] IN
              IF ~binding.has_type THEN Raise(calls)
              ELSE LET type_id == LastSegment(binding.uri) IN
                   IF type_id \in DOMAIN type_mapping
                   THEN Ret(type_mapping[type_id], calls)
                   ELSE Ret(None, calls)
         ELSE Ret(None, calls)

(***************************************************************************)
(* get_plant_type_from_family: the iNaturalist family lookup.              *)
(***************************************************************************)
FamilyHerb == {"Lamiaceae", "Apiaceae", "Zingiberaceae"}
FamilyFlowering == {"Rosaceae", "Asteraceae", "Orchidaceae", "Oleaceae"}
FamilyFruitVegetable == {"Solanaceae", "Cucurbitaceae", "Fabaceae"}
FamilyTree == {"Meliaceae", "Pinaceae", "Fagaceae"}
FamilyGrass == {"Poaceae"}
FamilySucculent == {"Asphodelaceae", "Cactaceae"}
FamilyOrnamental == {"Araceae", "Begoniaceae"}

\* The static family-to-category table.
family_type_mapping ==
    [f \in FamilyHerb \cup FamilyFlowering \cup FamilyFruitVegetable \cup FamilyTree
            \cup FamilyGrass \cup FamilySucculent \cup FamilyOrnamental |->
        CASE f \in FamilyHerb -> "Herb"
          [] f \in FamilyFlowering -> "Flowering"
          [] f \in FamilyFruitVegetable -> "Fruit/Vegetable"
          [] f \in FamilyTree -> "Tree"
          [] f \in FamilyGrass -> "Grass"
          [] f \in FamilySucculent -> "Succulent"
          [] f \in FamilyOrnamental -> "Ornamental"]

Taxon(rank, name) == [rank |-> rank, name |-> name]

\* Taxa an ancestors response is built from: mapped families, a family
\* outside the table, and a taxon of another rank whose name is a key of
\* the table.
TaxonSet ==
    {Taxon("family", "Lamiaceae"), Taxon("family", "Asphodelaceae"),
     Taxon("family", "Poaceae"), Taxon("family", "Violaceae"),
     Taxon("order", "Poaceae"), Taxon("genus", "Ocimum")}

\* A lineage holds at most one taxon of rank family.
Lineages ==
    {t \in SeqUpTo(TaxonSet, MaxTaxa) :
        Cardinality({i \in DOMAIN t : t[i].rank = "family"}) <= 1}

\* Unrequested stands for the response of a request the code cannot issue
\* given the earlier responses.
Unrequested == Failed("unrequested")

AutocompleteResps ==
    FailedResps
        \cup {Ok([has_results |-> FALSE, results |-> <<>>]),
              Ok([has_results |-> TRUE, results |-> <<>>]),
              Ok([has_results |-> TRUE, results |-> <<[has_ancestor_ids |-> FALSE]>>]),
              Ok([has_results |-> TRUE, results |-> <<[has_ancestor_ids |-> TRUE]>>])}

AncestorsResps ==
    FailedResps
        \cup {Ok([has_results |-> FALSE, results |-> <<>>])}
        \cup {Ok([has_results |-> TRUE, results |-> t]) : t \in Lineages}

\* Mutant of ScanAncestors: the rank of the taxon is not looked at.
RECURSIVE ScanAncestorsAnyRank(_)
ScanAncestorsAnyRank(taxa) ==
    IF taxa = <<>> THEN None
    ELSE LET taxon == Head(taxa) IN
         IF taxon.name \in DOMAIN family_type_mapping
         THEN family_type_mapping[taxon.name]
         ELSE ScanAncestorsAnyRank(Tail(taxa))

\* for taxon in ancestors_data["results"]: the category of the first taxon
\* of rank family whose name is a key of the table, else None.
RECURSIVE ScanAncestors(_)
ScanAncestors(taxa) ==
    IF taxa = <<>> THEN None
    ELSE LET taxon == Head(taxa) IN
         IF taxon.rank = "family" /\ taxon.name \in DOMAIN family_type_mapping
         THEN family_type_mapping[taxon.name]
         ELSE ScanAncestors(Tail(taxa))

\* The body of the try block of get_plant_type_from_family.
FamilyLookup(scientific_name, auto, anc) ==
    LET c1 == <<Call("inaturalist_autocomplete", scientific_name, FALSE)>>
        c2 == Append(c1, Call("inaturalist_taxa", scientific_name, FALSE))
    IN
    IF auto.kind = "exception" THEN Raise(c1)
    ELSE IF auto.kind = "http_error" THEN Ret(None, c1)
    ELSE IF auto.kind = "malformed" THEN Raise(c1)
    ELSE IF ~auto.body.has_results THEN Raise(c1)
    ELSE IF auto.body.results = <<>> THEN Ret(None, c1)
    ELSE IF ~auto.body.results[1].has_ancestor_ids THEN Ret(None, c1)
    ELSE IF anc.kind = "exception" THEN Raise(c2)
    ELSE IF anc.kind = "http_error" THEN Ret(None, c2)
    ELSE IF anc.kind = "malformed" THEN Raise(c2)
    ELSE IF ~anc.body.has_results THEN Raise(c2)
    ELSE Ret(ScanAncestors(anc.body.results), c2)

\* Mutant of get_plant_type_from_family: the lookup runs outside a try.
get_plant_type_from_family_unguarded(scientific_name, auto, anc) ==
    IF Falsy(scientific_name) THEN Ret(None, <<>>)
    ELSE FamilyLookup(scientific_name, auto, anc)

get_plant_type_from_family(scientific_name, auto, anc) ==
    IF Falsy(scientific_name) THEN Ret(None, <<>>)
    ELSE ExceptPass(FamilyLookup(scientific_name, auto, anc))

(***************************************************************************)
(* get_plant_type, strategy 3: the description keywords of the P31 targets.*)
(***************************************************************************)
\* Words of the English descriptions, with str.lower() of each.
LowerWord ==
    [w \in {"taxon", "plant", "Herbaceous", "herbaceous", "flowering",
            "ornamental", "grass", "fruit", "tree", "Species", "species",
            "of", "village"} |->
        CASE w = "Herbaceous" -> "herbaceous"
          [] w = "Species" -> "species"
          [] OTHER -> w]

\* The keywords (category keywords and plant_terms) that occur in a word
\* as a substring.
KeywordsIn(word) ==
    CASE word = "herbaceous" -> {"herb"}
      [] word = "plant" -> {"plant"}
      [] word = "species" -> {"species"}
      [] word = "flowering" -> {"flower", "flowering"}
      [] word = "ornamental" -> {"ornamental"}
      [] word = "grass" -> {"grass"}
      [] word = "fruit" -> {"fruit"}
      [] word = "tree" -> {"tree"}
      [] OTHER -> {}

\* A description is its sequence of words; a keyword holds no space, so it
\* is a substring of the text exactly when it is one of a word.
Lower(desc) == [i \in DOMAIN desc |-> LowerWord[desc[i]]]
Contains(desc, keyword) == \E i \in DOMAIN desc : keyword \in KeywordsIn(desc[i])

Descriptions ==
    {<<"taxon">>, <<"Herbaceous", "flowering", "plant">>, <<"ornamental", "grass">>,
     <<"fruit", "tree">>}

\* The if/elif chain over desc; None when no branch is taken.
DescriptionCategory(desc) ==
    IF Contains(desc, "herb") THEN "Herb"
    ELSE IF Contains(desc, "flower") \/ Contains(desc, "flowering") THEN "Flowering"
    ELSE IF Contains(desc, "fruit") \/ Contains(desc, "vegetable") THEN "Fruit/Vegetable"
    ELSE IF Contains(desc, "tree") THEN "Tree"
    ELSE IF Contains(desc, "grass") THEN "Grass"
    ELSE IF Contains(desc, "succulent") THEN "Succulent"
    ELSE IF Contains(desc, "ornamental") THEN "Ornamental"
    ELSE None

\* Responses of the wbgetentities request for one P31 target.
TypeEntity(has_entity, has_desc, desc) ==
    [has_entity |-> has_entity, has_en_description |-> has_desc, description |-> desc]

TypeResps ==
    FailedResps
        \cup {Ok(TypeEntity(FALSE, FALSE, <<>>)), Ok(TypeEntity(TRUE, FALSE, <<>>))}
        \cup {Ok(TypeEntity(TRUE, TRUE, d)) : d \in Descriptions}

\* One P31 statement: whether its mainsnak holds a datavalue, the target
\* id, and the response the target's wbgetentities request will get.
TypeIds == {"Q16521"}
ClaimSet ==
    {[has_datavalue |-> FALSE, type_id |-> None, resp |-> Unrequested]}
        \cup {[has_datavalue |-> TRUE, type_id |-> t, resp |-> r] :
                t \in TypeIds, r \in TypeResps}

ClaimsResps ==
    FailedResps
        \cup {Ok([has_p31 |-> FALSE, claims |-> <<>>])}
        \cup {Ok([has_p31 |-> TRUE, claims |-> c]) : c \in SeqUpTo(ClaimSet, MaxClaims)}

\* for claim in data["claims"]["P31"]
RECURSIVE ScanClaims(_, _)
ScanClaims(claims, calls) ==
    IF claims = <<>> THEN Ret(None, calls)
    ELSE LET claim == Head(claims) IN
         IF ~claim.has_datavalue THEN ScanClaims(Tail(claims), calls)
         ELSE LET made == Append(calls, Call("wbgetentities", claim.type_id, FALSE))
                  type_response == claim.resp
              IN
              IF type_response.kind \in {"exception", "malformed"} THEN Raise(made)
              ELSE IF type_response.kind = "http_error" THEN ScanClaims(Tail(claims), made)
              ELSE LET entity == type_response.body IN
                   IF entity.has_entity /\ entity.has_en_description
                   THEN LET found == DescriptionCategory(Lower(entity.description)) IN
                        IF found # None THEN Ret(found, made)
                        ELSE ScanClaims(Tail(claims), made)
                   ELSE ScanClaims(Tail(claims), made)

\* The body of the last try block of get_plant_type.
KeywordFallback(entity_id, resp) ==
    LET calls == <<Call("wbgetclaims", entity_id, FALSE)>> IN
    IF resp.kind \in {"exception", "malformed"} THEN Raise(calls)
    ELSE IF resp.kind = "http_error" THEN Ret(None, calls)
    ELSE IF resp.body.has_p31 THEN ScanClaims(resp.body.claims, calls)
    ELSE Ret(None, calls)

(***************************************************************************)
(* get_plant_type: the three strategies in order.                          *)
(***************************************************************************)
PlantTypes ==
    {"Herb", "Flowering", "Fruit/Vegetable", "Tree", "Grass", "Succulent",
     "Ornamental", "Plant"}

\* Mutant of DefaultType: the function ends without a return statement.
MissingDefault == None

\* return "Plant"  # Default type if nothing else matches
DefaultType == "Plant"

\* env holds the response of each request the call may issue.
get_plant_type(entity_id, scientific_name, env) ==
    LET direct == ExceptPass(DirectMembership(entity_id, env.direct)) IN
    IF direct.raised \/ direct.value # None THEN direct
    ELSE LET family == IF Falsy(scientific_name) THEN Ret(None, <<>>)
                       ELSE get_plant_type_from_family(scientific_name, env.auto, env.anc)
             after_family == direct.calls \o family.calls
         IN
         IF family.raised THEN Raise(after_family)
         ELSE IF ~Falsy(family.value) THEN Ret(family.value, after_family)
         ELSE LET keyword == ExceptPass(KeywordFallback(entity_id, env.claims))
                  all_calls == after_family \o keyword.calls
              IN
              IF keyword.raised THEN Raise(all_calls)
              ELSE IF keyword.value # None THEN Ret(keyword.value, all_calls)
              ELSE Ret(DefaultType, all_calls)

(***************************************************************************)
(* get_wikidata_entity_id: the steps of the resolver cascade.              *)
(***************************************************************************)
\* The catalog.
PLANTS_TO_SCRAPE ==
    <<"Tomato", "Rose", "Tulsi", "Neem", "Aloe Vera", "Mint", "Marigold",
      "Jasmine", "Bamboo", "Money Plant", "Petunia">>

search_variations(name) ==
    <<name, name \o " (plant)", name \o " plant", name \o " species",
      name \o " genus", name \o " herb", name \o " tree", name \o " flower",
      name \o " medicinal">>

plant_terms ==
    {"plant", "species", "genus", "tree", "herb", "flower", "medicinal",
     "flowering", "ornamental", "succulent", "grass", "vegetable", "fruit",
     "spice", "aromatic"}

\* str.lower() of the catalog names and of the labels of the candidates.
LowerString(x) ==
    CASE x = "Tomato" -> "tomato"
      [] x = "Rose" -> "rose"
      [] x = "Tulsi" -> "tulsi"
      [] x = "Neem" -> "neem"
      [] x = "Aloe Vera" -> "aloe vera"
      [] x = "Mint" -> "mint"
      [] x = "Marigold" -> "marigold"
      [] x = "Jasmine" -> "jasmine"
      [] x = "Bamboo" -> "bamboo"
      [] x = "Money Plant" -> "money plant"
      [] x = "Petunia" -> "petunia"
      [] x = "Solanum" -> "solanum"
      [] OTHER -> x

\* One result of wbsearchentities; label is None when the key is missing.
Candidate(id, label, description) ==
    [id |-> id, label |-> label, has_description |-> TRUE, description |-> description]
Undescribed(id, label) ==
    [id |-> id, label |-> label, has_description |-> FALSE, description |-> <<>>]

\* Candidates returned for a search on name: the label equal to the name
\* up to case with a plant description; another label with a plant
\* description; the name as label without a description; the name as label
\* with a description that holds no plant term.
CandidateSet(name) ==
    {Candidate("Q23501", LowerString(name), <<"species", "of", "plant">>),
     Candidate("Q146149", "Solanum", <<"Species", "of", "flowering", "plant">>),
     Undescribed("Q3", name),
     Candidate("Q4", name, <<"village">>)}

SearchResps(name) ==
    FailedResps
        \cup {Ok([has_search |-> FALSE, search |-> <<>>])}
        \cup {Ok([has_search |-> TRUE, search |-> c]) :
                c \in SeqUpTo(CandidateSet(name), MaxCandidates)}

\* "description" in result and any(term in desc for term in plant_terms)
PlantDescription(result) ==
    /\ result.has_description
    /\ \E term \in plant_terms : Contains(Lower(result.description), term)

\* result.get("label", "").lower() == name.lower()
LabelMatches(result, name) ==
    LowerString(IF result.label = None THEN "" ELSE result.label) = LowerString(name)

\* A first loop that does not compare the label with the name.
RECURSIVE ExactPassAnyLabel(_, _)
ExactPassAnyLabel(results, name) ==
    IF results = <<>> THEN None
    ELSE IF PlantDescription(Head(results)) THEN Head(results).id
         ELSE ExactPassAnyLabel(Tail(results), name)

\* First loop over data["search"]: the id of the first candidate with a
\* plant description whose label is the name, else None.
RECURSIVE ExactPass(_, _)
ExactPass(results, name) ==
    IF results = <<>> THEN None
    ELSE IF PlantDescription(Head(results)) /\ LabelMatches(Head(results), name)
         THEN Head(results).id
         ELSE ExactPass(Tail(results), name)

\* Second loop: the id of the first candidate with a plant description.
RECURSIVE PartialPass(_)
PartialPass(results) ==
    IF results = <<>> THEN None
    ELSE IF PlantDescription(Head(results)) THEN Head(results).id
         ELSE PartialPass(Tail(results))

\* The text search of one variant.  next is "return" (value is the id),
\* "sparql" (the per-variant query is issued), "skip" (next variant) or
\* "raise" (the exception leaves get_wikidata_entity_id: the request and
\* response.json() are outside any try).
SearchStep(name, resp) ==
    IF resp.kind \in {"exception", "malformed"} THEN [next |-> "raise", value |-> None]
    ELSE IF resp.kind = "http_error" THEN [next |-> "skip", value |-> None]
    ELSE IF resp.body.has_search /\ resp.body.search # <<>>
         THEN LET exact == ExactPass(resp.body.search, name)
                  partial == PartialPass(resp.body.search)
              IN  IF exact # None THEN [next |-> "return", value |-> exact]
                  ELSE IF partial # None THEN [next |-> "return", value |-> partial]
                  ELSE [next |-> "sparql", value |-> None]
         ELSE [next |-> "skip", value |-> None]

\* Responses of a SPARQL query that selects ?item (LIMIT 1).
ItemBindingSet ==
    {[has_item |-> FALSE, uri |-> <<>>]}
        \cup {[has_item |-> TRUE, uri |-> EntityUri(q)] : q \in {"Q11"}}

ItemResps ==
    FailedResps
        \cup {Ok([has_bindings |-> FALSE, bindings |-> <<>>])}
        \cup {Ok([has_bindings |-> TRUE, bindings |-> b]) :
                b \in SeqUpTo(ItemBindingSet, DirectLimit)}

\* The body of the try block around a SPARQL ?item query.
ItemQuery(resp) ==
    IF resp.kind = "exception" THEN Raise(<<>>)
    ELSE IF resp.kind = "http_error" THEN Ret(None, <<>>)
    ELSE IF resp.kind = "malformed" THEN Raise(<<>>)
    ELSE IF resp.body.has_bindings /\ resp.body.bindings # <<>>
         THEN IF resp.body.bindings[1].has_item
              THEN Ret(LastSegment(resp.body.bindings[1].uri), <<>>)
              ELSE Raise(<<>>)
         ELSE Ret(None, <<>>)

\* try: <query> except: pass -- the id found, or None.
SparqlStep(resp) == ExceptPass(ItemQuery(resp)).value


(***************************************************************************)
(* get_entity_data, get_entity_labels and the extractors.                  *)
(***************************************************************************)
\* One statement of a claim: the snaktype of its mainsnak, the value of
\* its datavalue (None when the datavalue is missing) and the P225 snaks
\* of its references.
Statement(snaktype, value, refs) ==
    [snaktype |-> snaktype, value |-> value, refs |-> refs]

\* An entity snapshot: the P225 and P18 statements and the Latin label
\* (None when absent).  EmptyDict is {}.
Snapshot(p225, la, p18) == [empty |-> FALSE, p225 |-> p225, la |-> la, p18 |-> p18]
EmptyDict == [empty |-> TRUE, p225 |-> <<>>, la |-> None, p18 |-> <<>>]

EntitySnapshots ==
    {Snapshot(<<Statement("value", "Ocimum tenuiflorum", <<>>)>>, None,
              <<Statement("value", "Tulsi.jpg", <<>>)>>)}

\* The wbgetentities response: the entity is absent from data['entities'],
\* or it is one of the snapshots.
EntityResps ==
    FailedResps \cup {Ok(EmptyDict)} \cup {Ok(e) : e \in EntitySnapshots}

\* raise_for_status() raises on a non-2xx status; every exception is
\* caught and {} returned.
get_entity_data(entity_id, resp) ==
    IF resp.kind # "ok" THEN EmptyDict ELSE resp.body

INDIAN_LANGUAGES ==
    {"hi", "bn", "te", "mr", "ta", "ur", "gu", "kn", "ml", "pa", "or", "as",
     "mai", "sa"}

\* The labels of a wbgetentities response, by language code.
LabelSets ==
    {<<>>, [l \in {"hi"} |-> "Tulsi (hi)"], [l \in {"hi", "en"} |-> "Tulsi (" \o l \o ")"]}

LabelsResps ==
    FailedResps
        \cup {Ok([has_entity |-> FALSE, labels |-> <<>>])}
        \cup {Ok([has_entity |-> TRUE, labels |-> l]) : l \in LabelSets}

get_entity_labels(entity_id, resp) ==
    IF resp.kind # "ok" THEN <<>>
    ELSE IF ~resp.body.has_entity THEN <<>>
    ELSE [l \in DOMAIN resp.body.labels \cap INDIAN_LANGUAGES |-> resp.body.labels[l]]

\* The value of the first statement whose mainsnak has snaktype 'value'
\* ('' when its datavalue is missing), else None.
RECURSIVE FirstValue(_)
FirstValue(statements) ==
    IF statements = <<>> THEN None
    ELSE IF Head(statements).snaktype = "value"
         THEN (IF Head(statements).value = None THEN "" ELSE Head(statements).value)
         ELSE FirstValue(Tail(statements))

\* The value of the first P225 reference snak of snaktype 'value'.
RECURSIVE FirstReferenceValue(_)
FirstReferenceValue(statements) ==
    IF statements = <<>> THEN None
    ELSE LET v == FirstValue(Head(statements).refs) IN
         IF v # None THEN v ELSE FirstReferenceValue(Tail(statements))

\* A Latin label without its 'value' key: labels['la']['value'] raises.
MalformedLabel == "<label without value>"

\* The references are looked at before the Latin label.
get_scientific_name_references_first(entity_data) ==
    LET main == FirstValue(entity_data.p225)
        ref == FirstReferenceValue(entity_data.p225)
    IN  IF main # None THEN main
        ELSE IF ref # None THEN ref
        ELSE IF entity_data.la = MalformedLabel THEN ""
        ELSE IF entity_data.la # None THEN entity_data.la
        ELSE ""

\* The try block of get_scientific_name.
ScientificNameBody(entity_data) ==
    LET main == FirstValue(entity_data.p225)
        ref == FirstReferenceValue(entity_data.p225)
    IN  IF main # None THEN Ret(main, <<>>)
        ELSE IF entity_data.la = MalformedLabel THEN Raise(<<>>)
        ELSE IF entity_data.la # None THEN Ret(entity_data.la, <<>>)
        ELSE IF ref # None THEN Ret(ref, <<>>)
        ELSE Ret("", <<>>)

\* except Exception: return ''
get_scientific_name(entity_data) ==
    LET r == ScientificNameBody(entity_data)
    IN  IF r.raised THEN "" ELSE r.value

\* The first P18 statement of snaktype 'value' with a non-empty filename.
RECURSIVE get_image_url(_)
get_image_url(statements) ==
    IF statements = <<>> THEN ""
    ELSE IF Head(statements).snaktype = "value" /\ ~Falsy(Head(statements).value)
         THEN "https://commons.wikimedia.org/wiki/Special:FilePath/"
                  \o Head(statements).value \o "?width=300"
         ELSE get_image_url(Tail(statements))

(***************************************************************************)
(* Records, the batch dict and the collection.                             *)
(***************************************************************************)
PlantRecordFields ==
    {"_id", "common_name", "scientific_name", "plant_type", "names_in_languages",
     "default_image_url", "last_updated"}

\* datetime.now(UTC).isoformat() at clock value t, and what
\* datetime.fromisoformat makes of it.
IsoFormat(t) == [type |-> "str", t |-> t]
DateTime(t) == [type |-> "datetime", t |-> t]

\* The info dict extract_plant_info starts from.
DefaultInfo(plant_id, plant_name, t) ==
    [f \in PlantRecordFields |->
        CASE f = "_id" -> plant_id
          [] f = "common_name" -> plant_name
          [] f = "scientific_name" -> ""
          [] f = "plant_type" -> ""
          [] f = "names_in_languages" -> <<>>
          [] f = "default_image_url" -> ""
          [] f = "last_updated" -> IsoFormat(t)]

\* d[key] = value on a dict (a function from its keys).
SetItem(d, key, value) ==
    [k \in DOMAIN d \cup {key} |-> IF k = key THEN value ELSE d[k]]

\* An insertion-ordered dict: its keys in order, and its items.
NewDict == [order |-> <<>>, items |-> <<>>]
DictSet(d, key, value) ==
    [order |-> IF key \in DOMAIN d.items THEN d.order ELSE Append(d.order, key),
     items |-> SetItem(d.items, key, value)]

\* collection.update_one({'_id': id}, {'$set': doc}, upsert=True);
\* upserted says that result.upserted_id is not None.
update_one(collection, doc) ==
    LET id == doc["_id"] IN
    IF id \in DOMAIN collection
    THEN LET old == collection[id]
             new == [f \in DOMAIN old \cup DOMAIN doc |->
                        IF f \in DOMAIN doc THEN doc[f] ELSE old[f]]
         IN  [collection |-> SetItem(collection, id, new),
              modified_count |-> IF new = old THEN 0 ELSE 1,
              upserted |-> FALSE]
    ELSE [collection |-> SetItem(collection, id, doc),
          modified_count |-> 0,
          upserted |-> TRUE]

\* str(plant_id) and int(plant_data['_id']).
Str(n) == <<"1", "2", "3", "4", "5", "6", "7", "8", "9", "10", "11">>[n]
ToInt(x) == x

\* datetime.fromisoformat(x): raises TypeError unless x is a str.
FromIsoFormat(x) ==
    IF x.type = "str" THEN Ret(DateTime(x.t), <<>>) ELSE Raise(<<>>)


(***************************************************************************)
(* The state of main before it starts.                                     *)
(***************************************************************************)
CatalogIds == 1..MaxPlants

NoCur ==
    [plant_id |-> 0, info |-> <<>>, variant |-> 0, entity_id |-> None,
     entity_data |-> EmptyDict]

NoUpdate ==
    [connected |-> FALSE, pending |-> <<>>, success_count |-> 0, error_count |-> 0,
     result |-> None]

PipelineIdle ==
    /\ pc = "start"
    /\ run = 0
    /\ now = 0
    /\ store = <<>>
    /\ existing_plants = {}
    /\ plants_to_scrape = <<>>
    /\ all_plants_data = NewDict
    /\ cur = NoCur
    /\ upd = NoUpdate
    /\ caught = {}
    /\ update_errors = {}
    /\ store_at_start = <<>>


(***************************************************************************)
(* The inputs of one get_plant_type call.                                  *)
(***************************************************************************)
ScientificNames == {None, "", "Ocimum tenuiflorum"}

\* The responses of the family lookup.  The ancestors request is issued
\* only after an autocomplete result that holds ancestor_ids.
FamilyEnvs ==
    LET with_ancestors == Ok([has_results |-> TRUE, results |-> <<[has_ancestor_ids |-> TRUE]>>])
    IN  {[auto |-> a, anc |-> Unrequested] : a \in AutocompleteResps \ {with_ancestors}}
            \cup {[auto |-> with_ancestors, anc |-> n] : n \in AncestorsResps}

\* The family lookup is not entered without a scientific name.
NoFamilyEnv == [auto |-> Unrequested, anc |-> Unrequested]

ClassifyInput(s, d, f, c) ==
    [entity_id |-> "Q158572", scientific_name |-> s,
     env |-> [direct |-> d, auto |-> f.auto, anc |-> f.anc, claims |-> c]]

(***************************************************************************)
(* SpecClassify: one call of get_plant_type on every input.                *)
(***************************************************************************)
InitClassify ==
    /\ PipelineIdle
    /\ cpc = "call"
    /\ \E s \in ScientificNames, d \in DirectResps, c \in ClaimsResps :
          \E f \in IF Falsy(s) THEN {NoFamilyEnv} ELSE FamilyEnvs :
             cin = ClassifyInput(s, d, f, c)
    /\ cout = Ret(None, <<>>)

CallGetPlantType ==
    /\ cpc = "call"
    /\ cpc' = "returned"
    /\ cout' = get_plant_type(cin.entity_id, cin.scientific_name, cin.env)
    /\ UNCHANGED <<cin, pvars>>

NextClassify == CallGetPlantType

SpecClassify == InitClassify /\ [][NextClassify]_vars

(***************************************************************************)
(* main, extract_plant_info and update_plant_basics.                       *)
(***************************************************************************)
\* Every catalog entry, whatever the collection holds.
PlantsToScrapeAll(existing) == [i \in CatalogIds |-> i]

\* The catalog entries whose id is not in the collection, in catalog order.
PlantsToScrape(existing) ==
    SelectSeq([i \in CatalogIds |-> i], LAMBDA plant_id : plant_id \notin existing)

\* The responses of get_plant_type's requests that a run of main draws
\* from (SpecClassify covers them all): each strategy fails, finds nothing
\* or finds one category.
PipelineDirectResps ==
    {Failed("exception"),
     Ok([has_bindings |-> TRUE, bindings |-> <<>>]),
     Ok([has_bindings |-> TRUE,
         bindings |-> <<[has_type |-> TRUE, uri |-> EntityUri("Q506")]>>])}
PipelineFamilyEnvs ==
    {[auto |-> Failed("malformed"), anc |-> Unrequested],
     [auto |-> Ok([has_results |-> TRUE, results |-> <<[has_ancestor_ids |-> TRUE]>>]),
      anc |-> Ok([has_results |-> TRUE, results |-> <<Taxon("family", "Lamiaceae")>>])]}
PipelineClaimsResps ==
    {Failed("exception"), Ok([has_p31 |-> FALSE, claims |-> <<>>])}

\* main starts: get_db_connection, then the ids already in the collection.
\* When the connection fails, the finally block reads the unbound local
\* client and main raises.
StartMain ==
    /\ pc = "start"
    /\ run' = run + 1
    /\ store_at_start' = store
    /\ \E connected \in BOOLEAN :
          IF connected
          THEN /\ existing_plants' = DOMAIN store
               /\ plants_to_scrape' = PlantsToScrape(DOMAIN store)
               /\ pc' = IF PlantsToScrape(DOMAIN store) = <<>> THEN "done" ELSE "scrape"
          ELSE /\ pc' = "raised"
               /\ UNCHANGED <<existing_plants, plants_to_scrape>>
    /\ UNCHANGED <<cvars, now, store, all_plants_data, cur, upd, caught, update_errors>>

\* extract_plant_info is entered for the next entry: the info dict.
BeginEntry ==
    /\ pc = "scrape"
    /\ plants_to_scrape # <<>>
    /\ LET plant_id == Head(plants_to_scrape) IN
       cur' = [NoCur EXCEPT !.plant_id = plant_id,
                            !.info = DefaultInfo(plant_id, PLANTS_TO_SCRAPE[plant_id], now),
                            !.variant = 1]
    /\ now' = now + 1
    /\ pc' = "search"
    /\ UNCHANGED <<cvars, run, store, existing_plants, plants_to_scrape, all_plants_data,
                   upd, caught, update_errors, store_at_start>>

\* An entry whose record still has no plant_type is left out of the batch.
ReturnInfoOrDrop(info) ==
    /\ all_plants_data' = IF info["plant_type"] = "" THEN all_plants_data
                          ELSE DictSet(all_plants_data, Str(cur.plant_id), info)
    /\ plants_to_scrape' = Tail(plants_to_scrape)
    /\ cur' = NoCur
    /\ pc' = "scrape"

\* extract_plant_info returns info; main stores it under str(plant_id) and
\* goes on to the next entry.
ReturnInfo(info) ==
    /\ all_plants_data' = DictSet(all_plants_data, Str(cur.plant_id), info)
    /\ plants_to_scrape' = Tail(plants_to_scrape)
    /\ cur' = NoCur
    /\ pc' = "scrape"

\* The final query is issued as soon as one variation has found nothing.
FinalAfterFirstVariant ==
    /\ cur' = cur
    /\ pc' = "final_sparql"
    /\ UNCHANGED <<all_plants_data, plants_to_scrape, caught>>

\* The next search variation, or the final query after the last one.
NextVariant ==
    /\ IF cur.variant < Len(search_variations(cur.info["common_name"]))
       THEN cur' = [cur EXCEPT !.variant = cur.variant + 1] /\ pc' = "search"
       ELSE cur' = cur /\ pc' = "final_sparql"
    /\ UNCHANGED <<all_plants_data, plants_to_scrape, caught>>

FoundEntity(entity_id) ==
    /\ cur' = [cur EXCEPT !.entity_id = entity_id]
    /\ pc' = "entity"
    /\ UNCHANGED <<all_plants_data, plants_to_scrape, caught>>

\* get_wikidata_entity_id: the text search of the current variation.  An
\* exception leaves the resolver and is caught by extract_plant_info.
SearchVariant ==
    /\ pc = "search"
    /\ \E resp \in SearchResps(cur.info["common_name"]) :
          LET step == SearchStep(cur.info["common_name"], resp) IN
          CASE step.next = "return" -> FoundEntity(step.value)
            [] step.next = "sparql" ->
                  /\ pc' = "variant_sparql"
                  /\ UNCHANGED <<cur, all_plants_data, plants_to_scrape, caught>>
            [] step.next = "skip" -> NextVariant
            [] step.next = "raise" ->
                  /\ caught' = caught \cup {cur.plant_id}
                  /\ ReturnInfo(cur.info)
    /\ UNCHANGED <<cvars, run, now, store, existing_plants, upd, update_errors,
                   store_at_start>>

\* get_wikidata_entity_id: the SPARQL query of the current variation.
VariantSparql ==
    /\ pc = "variant_sparql"
    /\ \E resp \in ItemResps :
          IF SparqlStep(resp) # None THEN FoundEntity(SparqlStep(resp)) ELSE NextVariant
    /\ UNCHANGED <<cvars, run, now, store, existing_plants, upd, update_errors,
                   store_at_start>>

\* get_wikidata_entity_id: the final query; without an id
\* extract_plant_info returns the info dict as it stands.
FinalSparql ==
    /\ pc = "final_sparql"
    /\ \E resp \in ItemResps :
          IF SparqlStep(resp) # None
          THEN FoundEntity(SparqlStep(resp))
          ELSE ReturnInfo(cur.info) /\ UNCHANGED caught
    /\ UNCHANGED <<cvars, run, now, store, existing_plants, upd, update_errors,
                   store_at_start>>

\* get_entity_data; on {} extract_plant_info returns the info dict.
FetchEntityData ==
    /\ pc = "entity"
    /\ \E resp \in EntityResps :
          LET entity_data == get_entity_data(cur.entity_id, resp) IN
          IF entity_data.empty
          THEN ReturnInfo(cur.info)
          ELSE /\ cur' = [cur EXCEPT !.entity_data = entity_data]
               /\ pc' = "labels"
               /\ UNCHANGED <<all_plants_data, plants_to_scrape>>
    /\ UNCHANGED <<cvars, run, now, store, existing_plants, upd, caught, update_errors,
                   store_at_start>>

\* get_entity_labels, then get_scientific_name on the snapshot.
FetchLabels ==
    /\ pc = "labels"
    /\ \E resp \in LabelsResps :
          cur' = [cur EXCEPT
                    !.info = [cur.info EXCEPT
                                !["names_in_languages"] = get_entity_labels(cur.entity_id, resp),
                                !["scientific_name"] = get_scientific_name(cur.entity_data)]]
    /\ pc' = "classify"
    /\ UNCHANGED <<cvars, run, now, store, existing_plants, plants_to_scrape,
                   all_plants_data, upd, caught, update_errors, store_at_start>>

\* get_plant_type, get_image_url, and the return of the finished record.
\* An exception from get_plant_type would be caught at line 744.
ClassifyEntry ==
    /\ pc = "classify"
    /\ \E d \in PipelineDirectResps, c \in PipelineClaimsResps :
          \E f \in IF Falsy(cur.info["scientific_name"]) THEN {NoFamilyEnv}
                   ELSE PipelineFamilyEnvs :
              LET env == [direct |-> d, auto |-> f.auto, anc |-> f.anc, claims |-> c]
                  type == get_plant_type(cur.entity_id, cur.info["scientific_name"], env)
              IN
              IF type.raised
              THEN caught' = caught \cup {cur.plant_id} /\ ReturnInfo(cur.info)
              ELSE /\ ReturnInfo([cur.info EXCEPT
                                    !["plant_type"] = type.value,
                                    !["default_image_url"] = get_image_url(cur.entity_data.p18)])
                   /\ UNCHANGED caught
    /\ UNCHANGED <<cvars, run, now, store, existing_plants, upd, update_errors,
                   store_at_start>>

\* update_plant_basics is called inside the loop of main, as soon as the
\* batch holds a record.
UpdateInsideLoop ==
    /\ pc = "scrape"
    /\ all_plants_data.order # <<>>
    /\ pc' = "update_connect"
    /\ UNCHANGED <<cvars, run, now, store, existing_plants, plants_to_scrape,
                   all_plants_data, cur, upd, caught, update_errors, store_at_start>>

\* The loop of main is over: update_plant_basics is called when the batch
\* is not empty.
EndScrape ==
    /\ pc = "scrape"
    /\ plants_to_scrape = <<>>
    /\ pc' = IF all_plants_data.order # <<>> THEN "update_connect" ELSE "done"
    /\ UNCHANGED <<cvars, run, now, store, existing_plants, plants_to_scrape,
                   all_plants_data, cur, upd, caught, update_errors, store_at_start>>

\* update_plant_basics: get_db_connection; on failure it returns False.
UpdateConnect ==
    /\ pc = "update_connect"
    /\ \E connected \in BOOLEAN :
          IF connected
          THEN /\ upd' = [NoUpdate EXCEPT !.connected = TRUE,
                                           !.pending = all_plants_data.order]
               /\ pc' = "update"
          ELSE /\ upd' = [NoUpdate EXCEPT !.result = FALSE]
               /\ pc' = "done"
    /\ UNCHANGED <<cvars, run, now, store, existing_plants, plants_to_scrape,
                   all_plants_data, cur, caught, update_errors, store_at_start>>

\* The update loop is left at the first error.
AbortUpdate(pending) == <<>>

\* What the except clause of the update loop does with the rest of the
\* batch: continue.
AfterUpdateError(pending) == Tail(pending)

\* update_plant_basics: one iteration of the loop.  The record is
\* converted in place, then upserted; an exception is counted and the loop
\* continues.
UpdateOne ==
    /\ pc = "update"
    /\ upd.pending # <<>>
    /\ LET key == Head(upd.pending)
           plant_data == all_plants_data.items[key]
           with_id == [plant_data EXCEPT !["_id"] = ToInt(plant_data["_id"])]
           parsed == FromIsoFormat(with_id["last_updated"])
           converted == [with_id EXCEPT !["last_updated"] = parsed.value]
       IN
       IF parsed.raised
       THEN /\ all_plants_data' = [all_plants_data EXCEPT !.items[key] = with_id]
            /\ upd' = [upd EXCEPT !.pending = AfterUpdateError(upd.pending),
                                  !.error_count = upd.error_count + 1]
            /\ update_errors' = update_errors \cup {with_id["_id"]}
            /\ UNCHANGED store
       ELSE /\ all_plants_data' = [all_plants_data EXCEPT !.items[key] = converted]
            /\ \E raises \in BOOLEAN :
                  IF raises
                  THEN /\ upd' = [upd EXCEPT !.pending = AfterUpdateError(upd.pending),
                                             !.error_count = upd.error_count + 1]
                       /\ update_errors' = update_errors \cup {converted["_id"]}
                       /\ UNCHANGED store
                  ELSE LET result == update_one(store, converted) IN
                       /\ store' = result.collection
                       /\ upd' = [upd EXCEPT
                                    !.pending = Tail(upd.pending),
                                    !.success_count =
                                        IF result.modified_count > 0 \/ result.upserted
                                        THEN upd.success_count + 1
                                        ELSE upd.success_count]
                       /\ UNCHANGED update_errors
    /\ UNCHANGED <<cvars, pc, run, now, existing_plants, plants_to_scrape, cur, caught,
                   store_at_start>>

\* update_plant_basics: after the loop; False when the collection is empty.
UpdateEnd ==
    /\ pc = "update"
    /\ upd.pending = <<>>
    /\ upd' = [upd EXCEPT !.result = (Cardinality(DOMAIN store) # 0)]
    /\ pc' = "done"
    /\ UNCHANGED <<cvars, run, now, store, existing_plants, plants_to_scrape,
                   all_plants_data, cur, caught, update_errors, store_at_start>>

\* The script is started again: a new process, the same collection.
Rerun ==
    /\ pc \in {"done", "raised"}
    /\ run < MaxRuns
    /\ pc' = "start"
    /\ existing_plants' = {}
    /\ plants_to_scrape' = <<>>
    /\ all_plants_data' = NewDict
    /\ cur' = NoCur
    /\ upd' = NoUpdate
    /\ caught' = {}
    /\ update_errors' = {}
    /\ store_at_start' = store
    /\ UNCHANGED <<cvars, run, now, store>>

Init ==
    /\ PipelineIdle
    /\ cpc = "idle"
    /\ cin = ClassifyInput(None, Failed("exception"), NoFamilyEnv, Failed("exception"))
    /\ cout = Ret(None, <<>>)

Next ==
    \/ StartMain
    \/ BeginEntry
    \/ SearchVariant
    \/ VariantSparql
    \/ FinalSparql
    \/ FetchEntityData
    \/ FetchLabels
    \/ ClassifyEntry
    \/ EndScrape
    \/ UpdateConnect
    \/ UpdateOne
    \/ UpdateEnd
    \/ Rerun

Spec == Init /\ [][Next]_vars


(***************************************************************************)
(* Claims about get_plant_type, checked under SpecClassify.                *)
(***************************************************************************)
\* What the inputs of the call say, read off the responses alone.
WithAncestors == Ok([has_results |-> TRUE, results |-> <<[has_ancestor_ids |-> TRUE]>>])

\* The direct query answered with a binding that names node q.
DirectBinds(resp, q) ==
    /\ resp.kind = "ok"
    /\ resp.body.has_bindings
    /\ resp.body.bindings # <<>>
    /\ resp.body.bindings[1].has_type
    /\ resp.body.bindings[1].uri = EntityUri(q)

DirectMatch(resp) == \E q \in DOMAIN type_mapping : DirectBinds(resp, q)

\* The direct query failed: network error, non-2xx, malformed body or a
\* missing field.
DirectFailed(resp) ==
    \/ resp.kind \in {"exception", "http_error", "malformed"}
    \/ /\ resp.kind = "ok"
       /\ \/ ~resp.body.has_bindings
          \/ resp.body.bindings # <<>> /\ ~resp.body.bindings[1].has_type

\* The taxonomy API returned the family-rank ancestor f.
FamilyReturned(env, f) ==
    /\ env.auto = WithAncestors
    /\ env.anc.kind = "ok"
    /\ env.anc.body.has_results
    /\ \E i \in DOMAIN env.anc.body.results :
          env.anc.body.results[i] = Taxon("family", f)

\* One of the two taxonomy requests failed.
FamilyFailed(env) ==
    \/ env.auto.kind \in {"exception", "http_error", "malformed"}
    \/ env.auto.kind = "ok" /\ ~env.auto.body.has_results
    \/ /\ env.auto = WithAncestors
       /\ \/ env.anc.kind \in {"exception", "http_error", "malformed"}
          \/ env.anc.kind = "ok" /\ ~env.anc.body.has_results

CategoryKeywords ==
    {"herb", "flower", "flowering", "fruit", "vegetable", "tree", "grass",
     "succulent", "ornamental"}

\* Some P31 target has an English description that holds a category keyword.
KeywordSignal(resp) ==
    /\ resp.kind = "ok"
    /\ resp.body.has_p31
    /\ \E i \in DOMAIN resp.body.claims :
          LET claim == resp.body.claims[i] IN
          /\ claim.has_datavalue
          /\ claim.resp.kind = "ok"
          /\ claim.resp.body.has_entity
          /\ claim.resp.body.has_en_description
          /\ \E k \in CategoryKeywords : Contains(Lower(claim.resp.body.description), k)

Endpoints(calls) == {calls[i].endpoint : i \in DOMAIN calls}

\* C1: for every scientific name (None and "" included) and every outcome
\* of the external calls, get_plant_type returns, without raising, one of
\* the eight categories.
C1_AlwaysACategory ==
    cpc = "returned" => (~cout.raised /\ cout.value \in PlantTypes)

C1_Witness ==
    /\ cpc = "returned"
    /\ cin.scientific_name = "Ocimum tenuiflorum"
    /\ cin.env.direct.kind = "exception"
    /\ cin.env.auto.kind = "malformed"
    /\ cin.env.claims.kind = "exception"
    /\ cout.value = "Plant"

\* C3: when the direct-membership query returns a binding whose node is in
\* the node-to-category table, get_plant_type returns the mapped category
\* and issues no request of the family or the keyword strategy.
C3_DirectMatchWins ==
    cpc = "returned" =>
        \A q \in DOMAIN type_mapping :
            DirectBinds(cin.env.direct, q) =>
                /\ ~cout.raised
                /\ cout.value = type_mapping[q]
                /\ Endpoints(cout.calls) = {"sparql"}

C3_Witness ==
    /\ cpc = "returned"
    /\ DirectBinds(cin.env.direct, "Q506")
    /\ cin.scientific_name = "Ocimum tenuiflorum"
    /\ FamilyReturned(cin.env, "Lamiaceae")
    /\ KeywordSignal(cin.env.claims)
    /\ cout.value = "Flowering"

\* C6: a failure inside one strategy counts as that strategy finding
\* nothing: the call does not raise and returns what it returns when the
\* failed request answers with an empty result instead; so a failed direct
\* query followed by a family lookup that finds a mapped family yields the
\* family's category.
C6_FailureIsNoResult ==
    cpc = "returned" =>
        LET id == cin.entity_id
            name == cin.scientific_name
            env == cin.env
            no_bindings == Ok([has_bindings |-> TRUE, bindings |-> <<>>])
            no_taxa == Ok([has_results |-> TRUE, results |-> <<>>])
            no_p31 == Ok([has_p31 |-> FALSE, claims |-> <<>>])
        IN
        /\ ~cout.raised
        /\ DirectFailed(env.direct) =>
              cout.value = get_plant_type(id, name, [env EXCEPT !.direct = no_bindings]).value
        /\ (~Falsy(name) /\ FamilyFailed(env)) =>
              cout.value = get_plant_type(id, name, [env EXCEPT !.auto = no_taxa]).value
        /\ KeywordFallback(id, env.claims).raised =>
              cout.value = get_plant_type(id, name, [env EXCEPT !.claims = no_p31]).value
        /\ \A f \in DOMAIN family_type_mapping :
              (DirectFailed(env.direct) /\ ~Falsy(name) /\ FamilyReturned(env, f)) =>
                  cout.value = family_type_mapping[f]

C6_Witness ==
    /\ cpc = "returned"
    /\ cin.env.direct.kind = "exception"
    /\ cin.scientific_name = "Ocimum tenuiflorum"
    /\ FamilyReturned(cin.env, "Lamiaceae")
    /\ cout.value = "Herb"
    /\ "inaturalist_taxa" \in Endpoints(cout.calls)

\* C7: with a non-empty scientific name, no direct-membership match and a
\* family-rank ancestor that is a key of the family table, get_plant_type
\* returns the category of that family (Lamiaceae: Herb, Poaceae: Grass,
\* Asphodelaceae: Succulent), whatever the descriptions of the P31 targets
\* hold.
C7_FamilyCategory ==
    cpc = "returned" =>
        LET applies(f) ==
                /\ ~Falsy(cin.scientific_name)
                /\ ~DirectMatch(cin.env.direct)
                /\ FamilyReturned(cin.env, f)
        IN
        /\ \A f \in DOMAIN family_type_mapping :
              applies(f) => (~cout.raised /\ cout.value = family_type_mapping[f])
        /\ applies("Lamiaceae") => cout.value = "Herb"
        /\ applies("Poaceae") => cout.value = "Grass"
        /\ applies("Asphodelaceae") => cout.value = "Succulent"

C7_Witness ==
    /\ cpc = "returned"
    /\ cin.scientific_name = "Ocimum tenuiflorum"
    /\ cin.env.direct = Ok([has_bindings |-> TRUE, bindings |-> <<>>])
    /\ cin.env.anc = Ok([has_results |-> TRUE,
                         results |-> <<Taxon("order", "Poaceae"), Taxon("family", "Lamiaceae")>>])
    /\ FamilyReturned(cin.env, "Lamiaceae")
    /\ KeywordSignal(cin.env.claims)
    /\ cout.value = "Herb"

\* C8: with no direct-membership binding in the table, the scientific name
\* empty or the family absent or unmapped, and no P31 target whose English
\* description holds a category keyword, get_plant_type returns Plant.
C8_DefaultIsPlant ==
    cpc = "returned" =>
        LET no_family ==
                \/ Falsy(cin.scientific_name)
                \/ ~\E f \in DOMAIN family_type_mapping : FamilyReturned(cin.env, f)
        IN
        (~DirectMatch(cin.env.direct) /\ no_family /\ ~KeywordSignal(cin.env.claims)) =>
            (~cout.raised /\ cout.value = "Plant")

C8_Witness ==
    /\ cpc = "returned"
    /\ cin.scientific_name = "Ocimum tenuiflorum"
    /\ cin.env.direct = Ok([has_bindings |-> TRUE, bindings |-> <<>>])
    /\ FamilyReturned(cin.env, "Violaceae")
    /\ cin.env.claims.kind = "ok"
    /\ cin.env.claims.body.claims # <<>>
    /\ \A i \in DOMAIN cin.env.claims.body.claims :
          /\ cin.env.claims.body.claims[i].resp.kind = "ok"
          /\ cin.env.claims.body.claims[i].resp.body.description = <<"taxon">>
    /\ cout.value = "Plant"


(***************************************************************************)
(* Claims about extract_plant_info, main and update_plant_basics, checked  *)
(* under Spec.                                                             *)
(***************************************************************************)
\* The ids main has handed to extract_plant_info and got a record back for
\* so far in this run, in catalog order.
Processed ==
    LET todo == PlantsToScrape(existing_plants)
    IN  SubSeq(todo, 1, Len(todo) - Len(plants_to_scrape))

\* The record main holds for plant_id in the batch it builds.
BatchRecord(plant_id) == all_plants_data.items[Str(plant_id)]

BatchIds == {all_plants_data.items[k]["_id"] : k \in DOMAIN all_plants_data.items}

\* extract_plant_info has just returned on a path on which no entity id was
\* found: the final query found nothing, or a text search raised.
ResolutionFailed ==
    /\ pc \in {"search", "final_sparql"}
    /\ pc' = "scrape"

\* update_plant_basics got its connection and its loop is over.
UpdateLoopOver == pc = "done" /\ upd.connected

\* C2: every record extract_plant_info emits, on every path, has a
\* plant_type that is one of the eight categories (Plant when no entity id
\* was found).
C2_PlantTypeInEnum ==
    \A k \in DOMAIN all_plants_data.items :
        all_plants_data.items[k]["plant_type"] \in PlantTypes

\* C4: while main runs, the batch holds exactly one record for each entry
\* processed so far, in order; every record has the seven fields, the
\* entry's catalog id and the entry's name; and a record returned without
\* an entity id has an empty scientific name, no translations and an empty
\* image url.
C4_BatchRecords ==
    pc \notin {"start", "raised"} =>
        /\ all_plants_data.order = [i \in 1..Len(Processed) |-> Str(Processed[i])]
        /\ DOMAIN all_plants_data.items = {Str(Processed[i]) : i \in 1..Len(Processed)}
        /\ \A i \in 1..Len(Processed) :
              LET record == BatchRecord(Processed[i]) IN
              /\ DOMAIN record = PlantRecordFields
              /\ record["_id"] = Processed[i]
              /\ record["common_name"] = PLANTS_TO_SCRAPE[Processed[i]]

C4_DefaultsOnFailure ==
    ResolutionFailed =>
        LET record == all_plants_data'.items[Str(cur.plant_id)] IN
        /\ Str(cur.plant_id) \in DOMAIN all_plants_data'.items
        /\ record["scientific_name"] = ""
        /\ record["names_in_languages"] = <<>>
        /\ record["default_image_url"] = ""

C4_OneRecordPerEntry == []C4_BatchRecords /\ [][C4_DefaultsOnFailure]_vars

C4_Witness ==
    /\ pc = "update_connect"
    /\ Len(all_plants_data.order) = MaxPlants
    /\ \E a, b \in CatalogIds :
          /\ BatchRecord(a)["scientific_name"] = ""
          /\ a \in caught
          /\ BatchRecord(b)["scientific_name"] = "Ocimum tenuiflorum"

\* C5: a failure of the text search of a variant is no result for that
\* step: the resolver does not raise, it goes on to the next step of the
\* cascade or returns an id.
C5_TextSearchFailureIsNoResult ==
    [][pc = "search" => pc' \in {"search", "variant_sparql", "final_sparql", "entity"}]_vars

\* C9: an id that is in the collection when main starts is not resolved
\* again, gets no record in the batch, and its document stays as it was;
\* and upserting a record of the batch a second time changes nothing.
C9_RerunIsNoOp ==
    /\ \A id \in existing_plants :
          /\ cur.plant_id # id
          /\ id \notin BatchIds
          /\ Str(id) \notin DOMAIN all_plants_data.items
          /\ id \in DOMAIN store
          /\ store[id] = store_at_start[id]
    /\ \A k \in DOMAIN all_plants_data.items :
          LET once == update_one(store, all_plants_data.items[k])
              twice == update_one(once.collection, all_plants_data.items[k])
          IN  /\ twice.collection = once.collection
              /\ twice.modified_count = 0
              /\ ~twice.upserted

C9_Witness ==
    /\ run = 2
    /\ UpdateLoopOver
    /\ existing_plants # {}
    /\ \E id \in DOMAIN store : id \notin existing_plants

WikidataEndpoints == {"sparql", "wbgetclaims", "wbgetentities"}

\* C11: every request get_plant_type sends to the knowledge-graph API (the
\* structured query, the claims fetch, the entity fetch) carries the
\* User-Agent header.
C11_UserAgentOnEveryCall ==
    cpc = "returned" =>
        \A i \in DOMAIN cout.calls :
            cout.calls[i].endpoint \in WikidataEndpoints => cout.calls[i].user_agent


(***************************************************************************)
(* The order of processing and persistence in one run, checked under Spec. *)
(***************************************************************************)
\* update_plant_basics has been called in this run.
PersistenceInvoked ==
    \/ pc \in {"update_connect", "update"}
    \/ pc = "done" /\ all_plants_data.order # <<>>

C12_PersistAfterProcessing ==
    \* the collection changes only inside the update loop, with a connection
    /\ store # store_at_start => pc \in {"update", "done"} /\ upd.connected
    /\ ~upd.connected => store = store_at_start
    /\ pc = "raised" => store = store_at_start
    \* update_plant_basics is called with the record of every entry to scrape
    /\ PersistenceInvoked =>
          /\ plants_to_scrape = <<>>
          /\ cur = NoCur
          /\ all_plants_data.order =
                [i \in 1..Len(PlantsToScrape(existing_plants)) |->
                    Str(PlantsToScrape(existing_plants)[i])]
    \* one entry at a time, in catalog order
    /\ cur.plant_id # 0 =>
          /\ plants_to_scrape # <<>>
          /\ cur.plant_id = Head(plants_to_scrape)
          /\ Str(cur.plant_id) \notin DOMAIN all_plants_data.items

C12_OneInvocation ==
    /\ pc' = "update_connect" =>
          pc = "scrape" /\ ~upd.connected /\ store = store_at_start
    /\ store' # store => pc = "update" /\ upd.connected
    /\ PersistenceInvoked /\ run' = run /\ pc' # "start" => PersistenceInvoked'

\* C12: in one run update_plant_basics is called at most once, after
\* extract_plant_info has returned for every entry to scrape, the entries
\* being processed one after another; the collection is not written before
\* that, and not at all when a connection cannot be established.
C12_PersistOnceAtEnd == []C12_PersistAfterProcessing /\ [][C12_OneInvocation]_vars

C12_Witness ==
    /\ run = 2
    /\ pc = "done"
    /\ all_plants_data.order # <<>>
    /\ ~upd.connected
    /\ store # <<>>
    /\ store = store_at_start


(***************************************************************************)
(* get_plant_type_from_sparql, and SpecSparqlType: one call of it on       *)
(* every response.                                                         *)
(***************************************************************************)
MaxBindings == 3

\* type_mapping of get_plant_type_from_sparql, on the labels the responses
\* below hold.
label_type_mapping ==
    [l \in {"herb", "flower", "tree", "ornamental plant", "plant"} |->
        CASE l = "herb" -> "Herb"
          [] l = "flower" -> "Flowering"
          [] l = "tree" -> "Tree"
          [] l = "ornamental plant" -> "Ornamental"
          [] l = "plant" -> "Plant"]

type_priority ==
    [t \in PlantTypes |->
        CASE t = "Herb" -> 5
          [] t \in {"Flowering", "Fruit/Vegetable", "Tree", "Grass", "Succulent"} -> 4
          [] t = "Ornamental" -> 3
          [] t = "Plant" -> 1]

\* result['typeLabel']['value'].lower()
LowerLabel(label) == IF label = "Flower" THEN "flower" ELSE label

\* One binding of the response; without typeLabel the lookup raises.
TypeBinding(label) == [has_label |-> TRUE, label |-> label]
TypeBindingSet ==
    {TypeBinding(l) : l \in {"herb", "Flower", "tree", "ornamental plant", "plant",
                             "organism"}}
        \cup {[has_label |-> FALSE, label |-> ""]}

SparqlTypeResps ==
    FailedResps
        \cup {Ok([has_bindings |-> FALSE, bindings |-> <<>>])}
        \cup {Ok([has_bindings |-> TRUE, bindings |-> b]) :
                b \in SeqUpTo(TypeBindingSet, MaxBindings)}

\* Python's order on str, on the category names: their position here.
StrOrder ==
    <<"Flowering", "Fruit/Vegetable", "Grass", "Herb", "Ornamental", "Plant",
      "Succulent", "Tree">>
StrIndex(t) == CHOOSE i \in DOMAIN StrOrder : StrOrder[i] = t

\* Python's order on the tuples (priority, plant_type).
TupleLess(a, b) ==
    \/ a[1] < b[1]
    \/ a[1] = b[1] /\ StrIndex(a[2]) < StrIndex(b[2])

\* found_types: the loop over the bindings.
RECURSIVE FoundTypes(_)
FoundTypes(bindings) ==
    IF bindings = <<>> THEN <<>>
    ELSE LET type_label == LowerLabel(Head(bindings).label) IN
         IF type_label \in DOMAIN label_type_mapping
         THEN <<<<type_priority[label_type_mapping[type_label]],
                  label_type_mapping[type_label]>>>> \o FoundTypes(Tail(bindings))
         ELSE FoundTypes(Tail(bindings))

\* found_types.sort(reverse=True); found_types[0]: the greatest tuple.
SortedReverseFirst(found_types) ==
    CHOOSE t \in {found_types[i] : i \in DOMAIN found_types} :
        \A i \in DOMAIN found_types : ~TupleLess(t, found_types[i])

\* A sort that keeps the order of the tuples of equal priority.
StableByPriorityFirst(found_types) ==
    found_types[CHOOSE i \in DOMAIN found_types :
                    /\ \A j \in DOMAIN found_types : found_types[j][1] <= found_types[i][1]
                    /\ \A j \in 1..(i - 1) : found_types[j][1] < found_types[i][1]]

get_plant_type_from_sparql(entity_id, resp) ==
    IF resp.kind # "ok" THEN None
    ELSE IF ~resp.body.has_bindings \/ resp.body.bindings = <<>> THEN None
    ELSE IF \E i \in DOMAIN resp.body.bindings : ~resp.body.bindings[i].has_label
         THEN None
    ELSE LET found_types == FoundTypes(resp.body.bindings) IN
         IF found_types # <<>> THEN SortedReverseFirst(found_types)[2] ELSE None

InitSparqlType ==
    /\ PipelineIdle
    /\ cpc = "call"
    /\ \E resp \in SparqlTypeResps : cin = [entity_id |-> "Q158572", resp |-> resp]
    /\ cout = Ret(None, <<>>)

CallGetPlantTypeFromSparql ==
    /\ cpc = "call"
    /\ cpc' = "returned"
    /\ cout' = Ret(get_plant_type_from_sparql(cin.entity_id, cin.resp), <<>>)
    /\ UNCHANGED <<cin, pvars>>

NextSparqlType == CallGetPlantTypeFromSparql

SpecSparqlType == InitSparqlType /\ [][NextSparqlType]_vars

\* The response holds bindings, each with a label, one of them mapped.
MappedMatches ==
    /\ cin.resp.kind = "ok"
    /\ cin.resp.body.has_bindings
    /\ \A i \in DOMAIN cin.resp.body.bindings : cin.resp.body.bindings[i].has_label
    /\ FoundTypes(cin.resp.body.bindings) # <<>>

\* C13: when the query returns several mapped category nodes, the category
\* of the highest rank among them is returned, and among several of the
\* highest rank the one that comes first in the result order.
C13_HighestRankFirstEncountered ==
    cpc = "returned" /\ MappedMatches =>
        cout.value = StableByPriorityFirst(FoundTypes(cin.resp.body.bindings))[2]


(***************************************************************************)
(* The order of the steps of get_wikidata_entity_id, checked under Spec.   *)
(***************************************************************************)
ResolverSteps == {"search", "variant_sparql", "final_sparql"}

LastVariant == Len(search_variations(cur.info["common_name"]))

\* get_wikidata_entity_id is running: no id yet, a variation in hand.
C14_InResolver ==
    pc \in ResolverSteps =>
        /\ cur.entity_id = None
        /\ cur.variant \in 1..LastVariant
        /\ LastVariant = 9
        /\ search_variations(cur.info["common_name"])[1] = cur.info["common_name"]
        /\ pc = "final_sparql" => cur.variant = LastVariant

C14_Order ==
    \* the first step is the text search of the bare name
    /\ pc = "scrape" /\ pc' \in ResolverSteps \cup {"entity"} =>
          pc' = "search" /\ cur'.variant = 1
    \* after a text search: the id, the query of the same variation, the
    \* next variation, the final query after the last one, or an exception
    /\ pc = "search" =>
          \/ pc' = "entity" /\ cur'.variant = cur.variant
          \/ pc' = "variant_sparql" /\ cur' = cur
          \/ pc' = "search" /\ cur'.variant = cur.variant + 1
          \/ pc' = "final_sparql" /\ cur.variant = LastVariant /\ cur' = cur
          \/ pc' = "scrape" /\ cur.plant_id \in caught'
    /\ pc = "variant_sparql" =>
          \/ pc' = "entity" /\ cur'.variant = cur.variant
          \/ pc' = "search" /\ cur'.variant = cur.variant + 1
          \/ pc' = "final_sparql" /\ cur.variant = LastVariant /\ cur' = cur
    \* the final query comes once, after the last variation
    /\ pc' = "final_sparql" =>
          pc \in {"search", "variant_sparql"} /\ cur.variant = LastVariant
    /\ pc = "final_sparql" => pc' \in {"entity", "scrape"}
    \* an id ends the cascade
    /\ pc' = "entity" =>
          pc \in ResolverSteps /\ cur.entity_id = None /\ cur'.entity_id # None
    /\ pc = "entity" => pc' \in {"labels", "scrape"}
    \* None is returned by the final query alone
    /\ pc \in ResolverSteps /\ pc' = "scrape" /\ caught' = caught =>
          pc = "final_sparql" /\ cur.variant = LastVariant

\* C14: the nine variations are tried in their order, the bare name first;
\* the id of the first step that finds one is returned and no later step
\* runs; the final query is issued once, after the last variation found
\* nothing; None is returned only when the final query, and so every step
\* before it, found nothing.
C14_VariantsInOrder == []C14_InResolver /\ [][C14_Order]_vars

C14_Witness ==
    /\ pc = "final_sparql"
    /\ cur.variant = 9
    /\ cur.plant_id = 2
    /\ "1" \in DOMAIN all_plants_data.items
    /\ all_plants_data.items["1"]["plant_type"] = "Herb"


(***************************************************************************)
(* SpecSearch: the text search step of get_wikidata_entity_id on every     *)
(* catalog name and every response.                                        *)
(***************************************************************************)
InitSearch ==
    /\ PipelineIdle
    /\ cpc = "call"
    /\ \E i \in DOMAIN PLANTS_TO_SCRAPE :
          \E resp \in SearchResps(PLANTS_TO_SCRAPE[i]) :
              cin = [name |-> PLANTS_TO_SCRAPE[i], resp |-> resp]
    /\ cout = Ret(None, <<>>)

CallSearchStep ==
    /\ cpc = "call"
    /\ cpc' = "returned"
    /\ cout' = Ret(SearchStep(cin.name, cin.resp), <<>>)
    /\ UNCHANGED <<cin, pvars>>

NextSearch == CallSearchStep

SpecSearch == InitSearch /\ [][NextSearch]_vars

\* The candidates of the response (none when it has no "search" key).
Results == IF cin.resp.body.has_search THEN cin.resp.body.search ELSE <<>>

\* The positions of the candidates with a plant keyword in their
\* description, and of those among them whose label is the name.
KeywordPositions == {i \in DOMAIN Results : PlantDescription(Results[i])}
ExactPositions == {i \in KeywordPositions : LabelMatches(Results[i], cin.name)}
First(positions) == CHOOSE i \in positions : \A j \in positions : i <= j

\* C15: whenever the text search of a variation answers without a
\* candidate accepted by either pass, the case of no candidates at all
\* included, the per-variation structured query is issued next.
C15_SparqlAfterNoAccepted ==
    cpc = "returned" /\ cin.resp.kind = "ok" /\ cin.resp.body.has_search
        /\ KeywordPositions = {} =>
            cout.value.next = "sparql"

\* C16: within one candidate list, the first candidate with a plant
\* keyword in its description and the name as label is returned, wherever
\* it stands; without one, the first candidate with a plant keyword in its
\* description; a candidate without a description is never returned.
C16_ExactLabelPreferred ==
    cpc = "returned" /\ cin.resp.kind = "ok" /\ Results # <<>> =>
        /\ ExactPositions # {} =>
              /\ cout.value.next = "return"
              /\ cout.value.value = Results[First(ExactPositions)].id
        /\ ExactPositions = {} /\ KeywordPositions # {} =>
              /\ cout.value.next = "return"
              /\ cout.value.value = Results[First(KeywordPositions)].id
        /\ KeywordPositions = {} => cout.value.next # "return"
        /\ cout.value.next = "return" =>
              \A i \in DOMAIN Results :
                  ~Results[i].has_description => Results[i].id # cout.value.value

C16_Witness ==
    /\ cpc = "returned"
    /\ cin.resp.kind = "ok"
    /\ Len(Results) = 2
    /\ Results[1].id = "Q146149"
    /\ Results[2].id = "Q23501"
    /\ cout.value.value = "Q23501"


(***************************************************************************)
(* SpecSciName: one call of get_scientific_name on every snapshot.         *)
(***************************************************************************)
MaxStatements == 2

\* The P225 snaks of the references of a statement.
ReferenceSnakSets ==
    {<<>>,
     <<Statement("novalue", None, <<>>)>>,
     <<Statement("value", "Ocimum basilicum", <<>>)>>}

\* P225 statements: a value, a 'value' snak without its datavalue, no value.
StatementSet ==
    {Statement(t.snaktype, t.value, refs) :
        t \in {[snaktype |-> "value", value |-> "Ocimum tenuiflorum"],
               [snaktype |-> "value", value |-> None],
               [snaktype |-> "novalue", value |-> None]},
        refs \in ReferenceSnakSets}

LatinLabels == {None, MalformedLabel, "Ocimum sanctum"}

InitSciName ==
    /\ PipelineIdle
    /\ cpc = "call"
    /\ \/ cin = [entity_data |-> EmptyDict]
       \/ \E p225 \in SeqUpTo(StatementSet, MaxStatements), la \in LatinLabels :
             cin = [entity_data |-> Snapshot(p225, la, <<>>)]
    /\ cout = Ret(None, <<>>)

CallGetScientificName ==
    /\ cpc = "call"
    /\ cpc' = "returned"
    /\ cout' = Ret(get_scientific_name(cin.entity_data), <<>>)
    /\ UNCHANGED <<cin, pvars>>

NextSciName == CallGetScientificName

SpecSciName == InitSciName /\ [][NextSciName]_vars

\* The sources of the snapshot, each by its own reading of the data.
P225 == cin.entity_data.p225
MainPositions == {i \in DOMAIN P225 : P225[i].snaktype = "value"}
ReferencePositions ==
    {i \in DOMAIN P225 : \E j \in DOMAIN P225[i].refs : P225[i].refs[j].snaktype = "value"}
FirstReferenceSnak(i) ==
    P225[i].refs[First({j \in DOMAIN P225[i].refs : P225[i].refs[j].snaktype = "value"})]

\* Every 'value' snak holds its datavalue and the Latin label its value.
WellFormedSnapshot ==
    /\ cin.entity_data.la # MalformedLabel
    /\ \A i \in DOMAIN P225 :
          /\ P225[i].snaktype = "value" => P225[i].value # None
          /\ \A j \in DOMAIN P225[i].refs :
                P225[i].refs[j].snaktype = "value" => P225[i].refs[j].value # None

\* C17: get_scientific_name returns the first P225 main value when there
\* is one; else the Latin label when there is one; else the first P225
\* value inside a reference; else ''.  It never raises, and on a missing
\* or malformed snapshot it returns '' or a value of the snapshot.
C17_FallbackOrder ==
    cpc = "returned" =>
        /\ ~cout.raised
        /\ cin.entity_data.empty => cout.value = ""
        /\ WellFormedSnapshot =>
              cout.value =
                  IF MainPositions # {} THEN P225[First(MainPositions)].value
                  ELSE IF cin.entity_data.la # None THEN cin.entity_data.la
                  ELSE IF ReferencePositions # {}
                       THEN FirstReferenceSnak(First(ReferencePositions)).value
                  ELSE ""
        /\ ~WellFormedSnapshot =>
              \/ cout.value = ""
              \/ cout.value = cin.entity_data.la /\ cin.entity_data.la # MalformedLabel
              \/ \E i \in DOMAIN P225 :
                    \/ cout.value = P225[i].value
                    \/ \E j \in DOMAIN P225[i].refs : cout.value = P225[i].refs[j].value

C17_Witness ==
    /\ cpc = "returned"
    /\ WellFormedSnapshot
    /\ Len(P225) = 2
    /\ MainPositions = {}
    /\ cin.entity_data.la = None
    /\ P225[1].refs = <<>>
    /\ cout.value = "Ocimum basilicum"

============================================================================
